---- MODULE Spec2Model ----
(***************************************************************************)
(* Model of the SWG-AI mitmproxy addon (src/swg-ai/SWG-AI.py): the         *)
(* URLCategorizer request handler, its in-memory category cache and the    *)
(* two JSON files it reads and rewrites (domain_cache.json and             *)
(* categories.json).                                                       *)
(*                                                                         *)
(* Every in-flight request (a flow) runs URLCategorizer.request.  The      *)
(* handler holds no lock, so one step of the model is one statement of     *)
(* the handler that touches shared state: the cache lookup, the            *)
(* classifier call, the read of categories.json, the open(..., "w") that   *)
(* truncates a file, the json.dump that fills it, the in-memory cache      *)
(* update and the save of the cache file.  Steps of different flows        *)
(* interleave freely.                                                      *)
(***************************************************************************)
EXTENDS Integers, Sequences, FiniteSets, TLC

(* ---------------------------- bounds ----------------------------------- *)
\* number of requests (flows) the transport hands to the addon
MaxFlows == 2
\* number of vocabulary labels the modelled backend answers with
MaxLabels == 2
\* number of edits an administrator makes to categories.json
MaxAdminEdits == 1
\* number of file writes of the handler that fail
MaxWriteFailures == 1

Flows == 1..MaxFlows

(* ---------------------------- values ----------------------------------- *)
\* content of a JSON file that json.load cannot parse (malformed, or
\* truncated by an open(..., "w") whose json.dump has not run yet)
Corrupt == [valid |-> FALSE, data |-> <<>>]
\* content of a JSON file that holds the dict d
File(d) == [valid |-> TRUE, data |-> d]
\* flow.response while the handler has not replaced it
None == [status |-> 0, body |-> "", content_type |-> ""]
\* the empty dict {}
EmptyMap == <<>>

\* the label list of the prompt, in prompt order
PromptLabels == <<"Social Media", "News", "Video Streaming", "E-commerce",
                  "Software Development", "Cloud Storage", "Communication",
                  "Search Engine", "Phishing", "Malware", "Suspicious",
                  "Encyclopedia", "Business", "Content Delivery Network",
                  "Adult Content", "Pornography", "Healthcare",
                  "Information Technology", "Travel", "Education",
                  "Entertainment", "Shopping", "Vehicles", "Games", "Drugs",
                  "AI/ML">>
\* the labels the model's backend answers with
Vocab == {PromptLabels[i] : i \in 1..MaxLabels}
Unknown == "Unknown"
ErrorSentinel == "Error (Gemini API)"
\* longest category get_domain_category returns unchanged
MaxCategoryLen == 50
FallbackBlockPage == "<h1>Access Denied!</h1><p>Blocked by filter.</p>"
CustomBlockPage == "<html>custom block page</html>"

\* policy strings found in categories.json
Statuses == {"allowed", "blocked", "Blocked"}

\* str.lower() on the policy strings of the model
Lower(s) == IF s = "Blocked" THEN "blocked" ELSE s

(* ------------------------- domain normalizer --------------------------- *)
\* a host is the sequence of its dot-separated labels; <<>> is the empty host
PublicSuffixes == {<<"com">>, <<"uk">>, <<"co", "uk">>}

\* label.lower() on the host labels of the model
LowerLabel(l) ==
    CASE l = "EXAMPLE" -> "example"
      [] l = "COM" -> "com"
      [] l = "WWW" -> "www"
      [] l = "A" -> "a"
      [] l = "SHOP" -> "shop"
      [] l = "CO" -> "co"
      [] l = "UK" -> "uk"
      [] OTHER -> l

LowerHost(h) == [i \in 1..Len(h) |-> LowerLabel(h[i])]

\* number of trailing labels of h, an all-lower-case host, that form its
\* longest public suffix
SuffixLen(h) ==
    LET ks == {k \in 1..Len(h) : SubSeq(h, Len(h) - k + 1, Len(h)) \in PublicSuffixes}
    IN IF ks = {} THEN 0 ELSE CHOOSE k \in ks : \A j \in ks : j <= k

\* tldextract.extract(host): [domain |-> label, suffix |-> labels].  The
\* suffix is looked up on the lower-cased labels; the result is cut out of
\* the labels as the host spells them.
Extract(host) ==
    LET k == SuffixLen(LowerHost(host))
        n == Len(host)
    IN [domain |-> IF n > k THEN host[n - k] ELSE "",
        suffix |-> IF k = 0 THEN <<>> ELSE SubSeq(host, n - k + 1, n)]

\* f"{extracted.domain}.{extracted.suffix}" if extracted.suffix else extracted.domain
\* the result is again a sequence of labels; <<>> is the empty string
Normalize(host) ==
    LET e == Extract(host)
    IN IF e.suffix # <<>> THEN <<e.domain>> \o e.suffix
       ELSE IF e.domain = "" THEN <<>> ELSE <<e.domain>>

FirstHost == <<"www", "example", "com">>
Hosts == {<<>>, <<"">>,
          <<"www", "example", "com">>, <<"example", "com">>,
          <<"a", "shop", "co", "uk">>, <<"shop", "co", "uk">>}

Domains == {Normalize(h) : h \in Hosts} \ {<<>>}

\* the hosts the normalizer is studied on: up to MaxSubdomains subdomain
\* labels, a name, a public suffix or none; the bare suffixes; the empty
\* host; and each of them in capitals
MaxSubdomains == 2
SubdomainLabels == {"www", "a"}
Names == {"example", "shop"}
Subdomains ==
    UNION {[1..n -> SubdomainLabels] : n \in 0..MaxSubdomains}
UpperLabel(l) ==
    CASE l = "example" -> "EXAMPLE"
      [] l = "com" -> "COM"
      [] l = "www" -> "WWW"
      [] l = "a" -> "A"
      [] l = "shop" -> "SHOP"
      [] l = "co" -> "CO"
      [] l = "uk" -> "UK"
      [] OTHER -> l
UpperHost(h) == [i \in 1..Len(h) |-> UpperLabel(h[i])]
LowerCaseHosts ==
    {<<>>} \cup PublicSuffixes
    \cup {s \o <<n>> \o x : s \in Subdomains, n \in Names,
                             x \in PublicSuffixes \cup {<<>>}}
NormHosts == LowerCaseHosts \cup {UpperHost(h) : h \in LowerCaseHosts}

\* the last k labels of h
LastLabels(h, k) == SubSeq(h, Len(h) - k + 1, Len(h))

\* g and h are spelled alike from a name on, and differ at most in the
\* subdomain labels in front of it
SameButSubdomains(g, h) ==
    \E k \in 1..Len(h) :
        /\ k <= Len(g)
        /\ LastLabels(g, k) = LastLabels(h, k)
        /\ LowerLabel(h[Len(h) - k + 1]) \in Names

\* g and h differ at most in the letter case of their labels
SameButCase(g, h) == LowerHost(g) = LowerHost(h)

\* the hosts that differ from h in letter case and subdomain labels at most
Variants(h) ==
    {h} \cup {g \in NormHosts : SameButSubdomains(LowerHost(g), LowerHost(h))}

(* ------------------------- classifier client --------------------------- *)
\* what model.generate_content does: it raises (error, timeout), or it
\* returns a text.  A text is the sequence of its colon-separated parts,
\* each part with its surrounding whitespace marked.
Part(s, padded) == [core |-> s, padded |-> padded]
Strip(part) == part.core

LongAnswer == "Suspicious-because-of-xyz-very-long-explanation-exceeding-threshold"
\* a short answer that is not one of the prompt's labels
OffListAnswer == "Sports"

\* no call to the backend has been made
NoAnswer == [raises |-> FALSE, text |-> <<>>]

BackendOutputs ==
    {[raises |-> TRUE, text |-> <<>>]}
    \cup {[raises |-> FALSE, text |-> <<Part("", TRUE)>>]}
    \cup {[raises |-> FALSE, text |-> <<Part(l, TRUE)>>] : l \in Vocab}
    \cup {[raises |-> FALSE, text |-> <<Part("Category", FALSE), Part(PromptLabels[1], TRUE)>>]}
    \cup {[raises |-> FALSE, text |-> <<Part("Category", FALSE), Part(LongAnswer, TRUE)>>]}
    \cup {[raises |-> FALSE, text |-> <<Part(ErrorSentinel, FALSE)>>]}
    \cup {[raises |-> FALSE, text |-> <<Part(OffListAnswer, TRUE)>>]}

\* get_domain_category without the length test
get_domain_category_NoLengthCheck(out) ==
    IF out.raises THEN ""
    ELSE Strip(out.text[Len(out.text)])

\* get_domain_category answering an exception with the error label
get_domain_category_ErrorLabel(out) ==
    IF out.raises THEN ErrorSentinel
    ELSE LET category == Strip(out.text[Len(out.text)])
         IN IF Len(category) > MaxCategoryLen THEN Unknown ELSE category

\* URLCategorizer.get_domain_category, given the backend's behaviour
get_domain_category(out) ==
    IF out.raises THEN ""
    ELSE LET category == Strip(out.text[Len(out.text)])
         IN IF Len(category) > MaxCategoryLen THEN Unknown ELSE category

Labels == {get_domain_category(o) : o \in BackendOutputs} \ {""}

(* ------------------------------ dicts ---------------------------------- *)
\* d[k] = v on a Python dict
Put(d, k, v) == [x \in DOMAIN d \cup {k} |-> IF x = k THEN v ELSE d[x]]

\* all dicts with keys in K and values in V
Dicts(K, V) == UNION {[S -> V] : S \in SUBSET K}

(* ------------------------------ state ---------------------------------- *)
VARIABLES
    policyFile,          \* content of categories.json
    cacheFile,           \* content of domain_cache.json
    category_cache,      \* self.category_cache
    blocked_categories,  \* self.blocked_categories
    block_page_html,     \* self.block_page_html
    pc,                  \* position of each flow in request()
    domain,              \* local: domain
    category,            \* local: category
    category_policies,   \* local: category_policies
    new_category,        \* local: the outcome of "category not in category_policies"
    origin,              \* where the flow's category came from: "cached" or "gemini"
    response,            \* flow.response
    generated,           \* what model.generate_content did for the flow
    adminEdits,          \* edits made to categories.json by the administrator
    writeFailures,       \* file writes of the handler that have failed
    norm,                \* the normalizer under study: hosts and results
    startup_policy,      \* categories.json as __init__ found it
    startup_cache,       \* domain_cache.json as __init__ found it
    startup_asset        \* block_page.html as __init__ found it ("" if missing)

vars == <<policyFile, cacheFile, category_cache, blocked_categories,
          block_page_html, pc, domain, category, category_policies,
          new_category, origin, response, generated, adminEdits,
          writeFailures, norm, startup_policy, startup_cache, startup_asset>>

stores == <<policyFile, cacheFile, category_cache>>
loaded == <<blocked_categories, block_page_html, startup_policy, startup_cache,
            startup_asset>>

(* ----------------------------- startup --------------------------------- *)
\* _load_blocked_categories comparing the policy string as written
load_blocked_categories_CaseSensitive(file) ==
    IF ~file.valid THEN {}
    ELSE {cat \in DOMAIN file.data : file.data[cat] = "blocked"}

\* URLCategorizer._load_blocked_categories on a file that exists
load_blocked_categories(file) ==
    IF ~file.valid THEN {}
    ELSE {cat \in DOMAIN file.data : Lower(file.data[cat]) = "blocked"}

\* load_cache_from_file keeping what it had when the file does not parse
load_cache_from_file_Stale(file) ==
    IF ~file.valid THEN [d \in {Normalize(FirstHost)} |-> PromptLabels[1]]
    ELSE file.data

\* URLCategorizer.load_cache_from_file on a file that exists
load_cache_from_file(file) == IF ~file.valid THEN EmptyMap ELSE file.data

\* URLCategorizer._load_block_page_html followed by the fallback of __init__;
\* asset is "" when block_page.html is missing or empty
load_block_page_html(asset) == IF asset = "" THEN FallbackBlockPage ELSE asset

\* the normalizer is not under study
NoNorm == [stage |-> "off", host |-> <<>>, other |-> <<>>,
           domain |-> <<>>, other_domain |-> <<>>, again |-> <<>>]

\* The state after URLCategorizer() has been constructed.  A file that was
\* missing has been created as {}; a file that was there is whatever an
\* earlier run or the administrator left in it, every cached label having
\* its policy entry when the policy file parses.
Init ==
    /\ policyFile \in {Corrupt} \cup {File(d) : d \in Dicts({PromptLabels[1]}, Statuses)}
    /\ cacheFile \in {Corrupt} \cup {File(d) : d \in Dicts({Normalize(FirstHost)}, Vocab)}
    /\ policyFile.valid =>
           \A d \in DOMAIN cacheFile.data : cacheFile.data[d] \in DOMAIN policyFile.data
    /\ category_cache = load_cache_from_file(cacheFile)
    /\ blocked_categories = load_blocked_categories(policyFile)
    /\ startup_policy = policyFile
    /\ startup_cache = cacheFile
    /\ startup_asset \in {"", CustomBlockPage}
    /\ block_page_html = load_block_page_html(startup_asset)
    /\ pc = [p \in Flows |-> "idle"]
    /\ domain = [p \in Flows |-> <<>>]
    /\ category = [p \in Flows |-> ""]
    /\ category_policies = [p \in Flows |-> EmptyMap]
    /\ new_category = [p \in Flows |-> FALSE]
    /\ origin = [p \in Flows |-> "none"]
    /\ response = [p \in Flows |-> None]
    /\ generated = [p \in Flows |-> NoAnswer]
    /\ adminEdits = 0
    /\ writeFailures = 0
    /\ norm = NoNorm

(* ------------------------- the request handler ------------------------- *)
\* http.Response.make(403, self.block_page_html, {"Content-Type": "text/html"})
BlockResponse ==
    [status |-> 403, body |-> block_page_html, content_type |-> "text/html"]

\* the blocking logic reading the policy from categories.json as it is now
Blocking_LivePolicy(p, cat) ==
    /\ response' = [response EXCEPT ![p] =
                        IF cat \in load_blocked_categories(policyFile)
                        THEN BlockResponse ELSE None]
    /\ pc' = [pc EXCEPT ![p] = "returned"]

\* the blocking logic at the end of request(), for a flow that carries cat
Blocking(p, cat) ==
    /\ response' = [response EXCEPT ![p] =
                        IF cat \in blocked_categories THEN BlockResponse ELSE None]
    /\ pc' = [pc EXCEPT ![p] = "returned"]


\* request() going on with an empty domain
Request_NoDomainCheck(p, host) ==
    /\ pc[p] = "idle"
    /\ \A q \in Flows : q < p => pc[q] # "idle"
    /\ LET d == Normalize(host)
           cached == IF d \in DOMAIN category_cache THEN category_cache[d] ELSE ""
       IN /\ domain' = [domain EXCEPT ![p] = d]
          /\ category_policies' = [category_policies EXCEPT ![p] = EmptyMap]
          /\ IF cached # ""
             THEN /\ category' = [category EXCEPT ![p] = cached]
                  /\ origin' = [origin EXCEPT ![p] = "cached"]
                  /\ Blocking(p, cached)
             ELSE /\ pc' = [pc EXCEPT ![p] = "classifying"]
                  /\ response' = [response EXCEPT ![p] = None]
                  /\ category' = [category EXCEPT ![p] = ""]
                  /\ origin' = [origin EXCEPT ![p] = "none"]
    /\ UNCHANGED <<stores, loaded, new_category, generated, adminEdits, writeFailures, norm>>

\* The transport calls request(flow), flows numbered in order of arrival:
\* normalisation and the cache lookup.
\* An empty host or an empty domain returns at once; a cached domain goes
\* straight to the blocking logic; any other domain calls the classifier.
Request(p, host) ==
    /\ pc[p] = "idle"
    /\ \A q \in Flows : q < p => pc[q] # "idle"
    /\ LET d == Normalize(host)
           cached == IF d \in DOMAIN category_cache THEN category_cache[d] ELSE ""
       IN /\ domain' = [domain EXCEPT ![p] = d]
          /\ category_policies' = [category_policies EXCEPT ![p] = EmptyMap]
          /\ IF host = <<>> \/ d = <<>>
             THEN /\ pc' = [pc EXCEPT ![p] = "returned"]
                  /\ response' = [response EXCEPT ![p] = None]
                  /\ category' = [category EXCEPT ![p] = ""]
                  /\ origin' = [origin EXCEPT ![p] = "none"]
             ELSE IF cached # ""
             THEN /\ category' = [category EXCEPT ![p] = cached]
                  /\ origin' = [origin EXCEPT ![p] = "cached"]
                  /\ Blocking(p, cached)
             ELSE /\ pc' = [pc EXCEPT ![p] = "classifying"]
                  /\ response' = [response EXCEPT ![p] = None]
                  /\ category' = [category EXCEPT ![p] = ""]
                  /\ origin' = [origin EXCEPT ![p] = "none"]
    /\ UNCHANGED <<stores, loaded, new_category, generated, adminEdits, writeFailures, norm>>

\* request() caching Unknown for a domain whose classification failed
Classify_CacheOnFailure(p, out) ==
    /\ pc[p] = "classifying"
    /\ generated' = [generated EXCEPT ![p] = out]
    /\ LET cat == get_domain_category(out)
       IN /\ category' = [category EXCEPT ![p] = cat]
          /\ IF cat = ""
             THEN /\ pc' = [pc EXCEPT ![p] = "returned"]
                  /\ origin' = origin
                  /\ category_cache' = Put(category_cache, domain[p], Unknown)
             ELSE /\ pc' = [pc EXCEPT ![p] = "read_policy"]
                  /\ origin' = [origin EXCEPT ![p] = "gemini"]
                  /\ category_cache' = category_cache
    /\ UNCHANGED <<policyFile, cacheFile, loaded, domain, category_policies,
                   new_category, response, adminEdits, writeFailures, norm>>

\* get_domain_category returns: an empty category ends the request
Classify(p, out) ==
    /\ pc[p] = "classifying"
    /\ generated' = [generated EXCEPT ![p] = out]
    /\ LET cat == get_domain_category(out)
       IN /\ category' = [category EXCEPT ![p] = cat]
          /\ IF cat = ""
             THEN /\ pc' = [pc EXCEPT ![p] = "returned"]
                  /\ origin' = origin
             ELSE /\ pc' = [pc EXCEPT ![p] = "read_policy"]
                  /\ origin' = [origin EXCEPT ![p] = "gemini"]
    /\ UNCHANGED <<stores, loaded, domain, category_policies, new_category,
                   response, adminEdits, writeFailures, norm>>

\* the handler writing the policy it read, without the new category
ReadPolicy_NoDefault(p) ==
    /\ pc[p] = "read_policy"
    /\ IF ~policyFile.valid
       THEN /\ pc' = [pc EXCEPT ![p] = "raised"]
            /\ UNCHANGED <<category_policies, new_category>>
       ELSE /\ category_policies' = [category_policies EXCEPT ![p] = policyFile.data]
            /\ new_category' =
                   [new_category EXCEPT ![p] = category[p] \notin DOMAIN policyFile.data]
            /\ pc' = [pc EXCEPT ![p] =
                         IF category[p] \notin DOMAIN policyFile.data
                            /\ category[p] # ErrorSentinel
                         THEN "open_policy" ELSE "cache_put"]
    /\ UNCHANGED <<stores, loaded, domain, category, origin, response, generated, adminEdits, writeFailures, norm>>

\* json.load of categories.json; a file that does not parse raises out of
\* the handler.  A category that is in the file, or the error sentinel,
\* skips the write.
ReadPolicy(p) ==
    /\ pc[p] = "read_policy"
    /\ IF ~policyFile.valid
       THEN /\ pc' = [pc EXCEPT ![p] = "raised"]
            /\ UNCHANGED <<category_policies, new_category>>
       ELSE IF category[p] \in DOMAIN policyFile.data
       THEN /\ category_policies' = [category_policies EXCEPT ![p] = policyFile.data]
            /\ new_category' = [new_category EXCEPT ![p] = FALSE]
            /\ pc' = [pc EXCEPT ![p] = "cache_put"]
       ELSE /\ new_category' = [new_category EXCEPT ![p] = TRUE]
            /\ category_policies' =
                   [category_policies EXCEPT ![p] =
                        Put(policyFile.data, category[p], "allowed")]
            /\ pc' = [pc EXCEPT ![p] =
                         IF category[p] # ErrorSentinel THEN "open_policy" ELSE "cache_put"]
    /\ UNCHANGED <<stores, loaded, domain, category, origin, response, generated, adminEdits, writeFailures, norm>>

\* open("categories.json", "w") truncates the file
OpenPolicy(p) ==
    /\ pc[p] = "open_policy"
    /\ policyFile' = Corrupt
    /\ pc' = [pc EXCEPT ![p] = "dump_policy"]
    /\ UNCHANGED <<cacheFile, category_cache, loaded, domain, category,
                   category_policies, new_category, origin, response, generated, adminEdits, writeFailures, norm>>

\* json.dump(category_policies, f, indent=4) and the close of the file
DumpPolicy(p) ==
    /\ pc[p] = "dump_policy"
    /\ policyFile' = File(category_policies[p])
    /\ pc' = [pc EXCEPT ![p] = "cache_put"]
    /\ UNCHANGED <<cacheFile, category_cache, loaded, domain, category,
                   category_policies, new_category, origin, response, generated, adminEdits, writeFailures, norm>>

\* the handler going on to the save without the in-memory update
CachePut_Skip(p) ==
    /\ pc[p] = "cache_put"
    /\ category_policies' = [category_policies EXCEPT ![p] = EmptyMap]
    /\ pc' = [pc EXCEPT ![p] = "save_cache"]
    /\ UNCHANGED <<policyFile, cacheFile, category_cache, loaded, domain, category,
                   new_category, origin, response, generated, adminEdits, writeFailures, norm>>

\* self.category_cache[domain] = category
CachePut(p) ==
    /\ pc[p] = "cache_put"
    /\ category_cache' = Put(category_cache, domain[p], category[p])
    /\ category_policies' = [category_policies EXCEPT ![p] = EmptyMap]
    /\ pc' = [pc EXCEPT ![p] = "save_cache"]
    /\ UNCHANGED <<policyFile, cacheFile, loaded, domain, category,
                   new_category, origin, response, generated, adminEdits, writeFailures, norm>>

\* self.save_cache_to_file('domain_cache.json'), and then the blocking logic.
\* The file is truncated and rewritten from self.category_cache; nothing
\* reads domain_cache.json after startup, so the write is one step.
SaveCache(p) ==
    /\ pc[p] = "save_cache"
    /\ cacheFile' = File(category_cache)
    /\ Blocking(p, category[p])
    /\ UNCHANGED <<policyFile, category_cache, loaded, domain, category,
                   category_policies, new_category, origin, generated, adminEdits, writeFailures, norm>>

(* ---------------------------- failed writes --------------------------- *)
\* open("categories.json", "w") raises (the file cannot be opened for
\* writing): the file is as it was, and nothing in request() catches the error
OpenPolicyFails(p) ==
    /\ pc[p] = "open_policy"
    /\ writeFailures < MaxWriteFailures
    /\ writeFailures' = writeFailures + 1
    /\ pc' = [pc EXCEPT ![p] = "raised"]
    /\ UNCHANGED <<stores, loaded, domain, category, category_policies,
                   new_category, origin, response, generated, adminEdits, norm>>

\* json.dump into categories.json raises part-way (the disk is full): the
\* file is left truncated, and nothing in request() catches the error
DumpPolicyFails(p) ==
    /\ pc[p] = "dump_policy"
    /\ writeFailures < MaxWriteFailures
    /\ writeFailures' = writeFailures + 1
    /\ policyFile' = Corrupt
    /\ pc' = [pc EXCEPT ![p] = "raised"]
    /\ UNCHANGED <<cacheFile, category_cache, loaded, domain, category,
                   category_policies, new_category, origin, response, generated,
                   adminEdits, norm>>

\* save_cache_to_file fails: at the open (the file is as it was) or in
\* json.dump (the file is left truncated).  Its except clause logs the
\* error, and request() goes on to the blocking logic.
SaveCacheFails(p, truncated) ==
    /\ pc[p] = "save_cache"
    /\ writeFailures < MaxWriteFailures
    /\ writeFailures' = writeFailures + 1
    /\ cacheFile' = IF truncated THEN Corrupt ELSE cacheFile
    /\ Blocking(p, category[p])
    /\ UNCHANGED <<policyFile, category_cache, loaded, domain, category,
                   category_policies, new_category, origin, generated, adminEdits, norm>>

(* --------------------------- the administrator ------------------------- *)
\* an administrator sets the policy of one category in categories.json
AdminEdit(l, s) ==
    /\ adminEdits < MaxAdminEdits
    /\ policyFile.valid
    /\ policyFile' = File(Put(policyFile.data, l, s))
    /\ adminEdits' = adminEdits + 1
    /\ UNCHANGED <<cacheFile, category_cache, loaded, pc, domain, category,
                   category_policies, new_category, origin, response, generated,
                   writeFailures, norm>>

Next ==
    \/ \E p \in Flows, host \in Hosts : Request(p, host)
    \/ \E p \in Flows, out \in BackendOutputs : Classify(p, out)
    \/ \E p \in Flows : ReadPolicy(p)
    \/ \E p \in Flows : OpenPolicy(p)
    \/ \E p \in Flows : DumpPolicy(p)
    \/ \E p \in Flows : CachePut(p)
    \/ \E p \in Flows : SaveCache(p)
    \/ \E p \in Flows : OpenPolicyFails(p)
    \/ \E p \in Flows : DumpPolicyFails(p)
    \/ \E p \in Flows, truncated \in BOOLEAN : SaveCacheFails(p, truncated)
    \/ \E l \in Vocab, s \in {"allowed", "blocked"} : AdminEdit(l, s)

Spec == Init /\ [][Next]_vars

\* Spec with progress: a handler that has been called runs on, statement
\* after statement, and a call of generate_content comes back, with an
\* answer or with an exception (an error, or the deadline of the client
\* library), so a step that is possible is not put off forever.
FairSpec == Spec /\ WF_vars(Next)

(* ----------------------- the normalizer alone -------------------------- *)
\* everything but norm
engine == <<policyFile, cacheFile, category_cache, blocked_categories,
            block_page_html, pc, domain, category, category_policies,
            new_category, origin, response, generated, adminEdits,
            writeFailures, startup_policy, startup_cache, startup_asset>>

\* an addon constructed with no files present, before any request, and two
\* hosts that differ in letter case and subdomain labels at most
NormInit ==
    /\ policyFile = File(EmptyMap)
    /\ cacheFile = File(EmptyMap)
    /\ category_cache = load_cache_from_file(cacheFile)
    /\ blocked_categories = load_blocked_categories(policyFile)
    /\ startup_policy = policyFile
    /\ startup_cache = cacheFile
    /\ startup_asset = ""
    /\ block_page_html = load_block_page_html(startup_asset)
    /\ pc = [p \in Flows |-> "idle"]
    /\ domain = [p \in Flows |-> <<>>]
    /\ category = [p \in Flows |-> ""]
    /\ category_policies = [p \in Flows |-> EmptyMap]
    /\ new_category = [p \in Flows |-> FALSE]
    /\ origin = [p \in Flows |-> "none"]
    /\ response = [p \in Flows |-> None]
    /\ generated = [p \in Flows |-> NoAnswer]
    /\ adminEdits = 0
    /\ writeFailures = 0
    /\ \E h \in NormHosts : \E g \in Variants(h) :
          norm = [stage |-> "start", host |-> h, other |-> g,
                  domain |-> <<>>, other_domain |-> <<>>, again |-> <<>>]

\* lines 154-155 applied to each of the two hosts
NormalizeHosts ==
    /\ norm.stage = "start"
    /\ norm' = [norm EXCEPT !.stage = "normalized",
                            !.domain = Normalize(norm.host),
                            !.other_domain = Normalize(norm.other)]
    /\ UNCHANGED engine

\* lines 154-155 applied to the domain they produced
NormalizeAgain ==
    /\ norm.stage = "normalized"
    /\ norm.domain # <<>>
    /\ norm' = [norm EXCEPT !.stage = "again",
                            !.again = Normalize(norm.domain)]
    /\ UNCHANGED engine

NormNext == NormalizeHosts \/ NormalizeAgain

NormSpec == NormInit /\ [][NormNext]_vars

(* ------------------------------ verdicts ------------------------------- *)
\* the handler returned and left flow.response alone
Allowed(p) == pc[p] = "returned" /\ response[p] = None
\* the handler returned after replacing flow.response
Blocked(p) == pc[p] = "returned" /\ response[p] # None

\* the classifier call failed: the backend raised (error, timeout) or its
\* text is empty once trimmed
ClassifierFailed(out) ==
    \/ out.raises
    \/ out.text # <<>> /\ Strip(out.text[Len(out.text)]) = ""

(* ------------------------------- claims -------------------------------- *)

\* C1: a request whose domain is not cached and whose classifier call fails
\* (exception, timeout, empty output) ends Allowed, with no response set, and
\* no step of it changes the in-memory cache, domain_cache.json or
\* categories.json.
C1_FailOpen ==
    [][\A p \in Flows :
          /\ (pc[p] = "idle" /\ pc'[p] = "classifying") => UNCHANGED stores
          /\ (pc[p] = "classifying" /\ pc'[p] # "classifying"
                 /\ ClassifierFailed(generated'[p]))
                => /\ pc'[p] = "returned"
                   /\ response'[p] = None
                   /\ UNCHANGED stores]_vars

\* a flow whose domain was not cached and whose classifier call failed has ended
C1_Witness ==
    \E p \in Flows :
        /\ pc[p] = "returned"
        /\ domain[p] # <<>>
        /\ origin[p] = "none"
        /\ ClassifierFailed(generated[p])

\* C2: once a request for d has completed with a successful classification,
\* d is in the cache; a cached domain stays cached; and a request for a
\* cached domain makes no classifier call and carries the label stored for it.
C2_CacheProperty ==
    /\ [](\A p \in Flows :
             (pc[p] = "returned" /\ origin[p] = "gemini")
                => domain[p] \in DOMAIN category_cache)
    /\ [][/\ \A d \in DOMAIN category_cache : d \in DOMAIN category_cache'
          /\ \A p \in Flows :
                (pc[p] = "idle" /\ pc'[p] # "idle"
                     /\ domain'[p] \in DOMAIN category_cache)
                   => /\ pc'[p] = "returned"
                      /\ generated'[p] = NoAnswer
                      /\ origin'[p] = "cached"
                      /\ category'[p] = category_cache[domain'[p]]]_vars

\* a flow classified a domain and returned, and a later flow for the same
\* domain was served from the cache with the same label
C2_Witness ==
    \E p, q \in Flows :
        /\ p < q
        /\ pc[p] = "returned" /\ origin[p] = "gemini"
        /\ pc[q] = "returned" /\ origin[q] = "cached"
        /\ generated[q] = NoAnswer
        /\ domain[q] = domain[p]
        /\ category[q] = category[p]

\* C3: an engine started on a categories.json that does not parse never
\* processes a request.
C3_CorruptPolicyFatal ==
    ~startup_policy.valid => \A p \in Flows : pc[p] = "idle"

\* the policy that categories.json held at startup blocks the label
StartupBlocks(label) ==
    /\ startup_policy.valid
    /\ label \in DOMAIN startup_policy.data
    /\ Lower(startup_policy.data[label]) = "blocked"

\* the block response the interfaces section describes
ExpectedBlockResponse ==
    [status |-> 403,
     body |-> IF startup_asset = "" THEN FallbackBlockPage ELSE startup_asset,
     content_type |-> "text/html"]

\* C4: a request whose domain is cached with a label that the policy loaded
\* at startup maps to blocked (in any letter case) ends Blocked: status 403,
\* Content-Type text/html, and the block page asset or the inline fallback.
C4_BlockPath ==
    [][\A p \in Flows :
          (pc[p] = "idle" /\ pc'[p] # "idle"
               /\ domain'[p] \in DOMAIN category_cache
               /\ StartupBlocks(category_cache[domain'[p]]))
             => /\ pc'[p] = "returned"
                /\ response'[p] = ExpectedBlockResponse]_vars

\* a flow for a cached domain whose label the startup policy blocks has
\* been answered with the block response
C4_Witness ==
    \E p \in Flows :
        /\ Blocked(p)
        /\ origin[p] = "cached"
        /\ StartupBlocks(category[p])
        /\ startup_policy.data[category[p]] = "Blocked"

\* reloading the policy from the file yields Allow for the label
PersistedAllow(file, label) ==
    /\ file.valid
    /\ label \in DOMAIN file.data
    /\ Lower(file.data[label]) = "allowed"
    /\ label \notin load_blocked_categories(file)

\* the positions of the handler after a successful classifier call
Classified == {"read_policy", "open_policy", "dump_policy", "cache_put", "save_cache"}

\* C5: when a request has classified its domain into a label that had no
\* entry in categories.json, then at the return of that request
\* categories.json maps the label to allowed.
C5_PolicyAutoDefault ==
    [][\A p \in Flows :
          (pc[p] = "save_cache" /\ pc'[p] = "returned" /\ new_category[p])
             => PersistedAllow(policyFile', category[p])]_vars

\* C6: when a policy decision is made for a label (the blocking check of a
\* request that carries a category), categories.json has an entry for it.
C6_NoOrphanCategories ==
    [][\A p \in Flows :
          (pc[p] # "returned" /\ pc'[p] = "returned" /\ category'[p] # "")
             => /\ policyFile'.valid
                /\ category'[p] \in DOMAIN policyFile'.data]_vars

\* C7: when the handler rewrites categories.json, every entry the file
\* holds at that moment is in what the handler writes, with the same policy.
C7_EngineKeepsEntries ==
    [][\A p \in Flows :
          (pc[p] = "open_policy" /\ pc'[p] = "dump_policy" /\ policyFile.valid)
             => \A l \in DOMAIN policyFile.data :
                   /\ l \in DOMAIN category_policies[p]
                   /\ category_policies[p][l] = policyFile.data[l]]_vars

\* C8: after two requests that classified two distinct unseen domains into
\* two distinct new vocabulary labels have both returned, no file write
\* having failed, categories.json holds both labels and domain_cache.json
\* holds both domains.
C8_NoLostUpdate ==
    \A p, q \in Flows :
        (/\ p # q
         /\ pc[p] = "returned" /\ pc[q] = "returned"
         /\ origin[p] = "gemini" /\ origin[q] = "gemini"
         /\ new_category[p] /\ new_category[q]
         /\ domain[p] # domain[q]
         /\ category[p] # category[q]
         /\ category[p] # ErrorSentinel /\ category[q] # ErrorSentinel
         /\ writeFailures = 0)
        => /\ policyFile.valid
           /\ {category[p], category[q]} \subseteq DOMAIN policyFile.data
           /\ cacheFile.valid
           /\ {domain[p], domain[q]} \subseteq DOMAIN cacheFile.data

\* C9: while a request that classified an uncached domain d is in the
\* handler, no other request for d has called the classifier.
C9_OneClassificationPerDomain ==
    \A p, q \in Flows :
        (/\ p # q
         /\ pc[p] \in Classified
         /\ pc[q] \in Classified \cup {"classifying"})
        => domain[p] # domain[q]

\* every flow has classified its domain into the label, found it unseen or
\* failed to read the file, and has ended; the file parsed at startup without
\* the label, the administrator has not touched it and no write has failed
SameNewLabelRun(label) ==
    /\ startup_policy.valid
    /\ label \notin DOMAIN startup_policy.data
    /\ adminEdits = 0
    /\ writeFailures = 0
    /\ \A p \in Flows :
          /\ pc[p] \in {"returned", "raised"}
          /\ origin[p] = "gemini"
          /\ category[p] = label

ControlledVocabulary == {PromptLabels[i] : i \in DOMAIN PromptLabels} \cup {Unknown}

\* C11: every label get_domain_category returns as usable, every label in
\* the category cache and every key of categories.json is one of the
\* prompt's labels or Unknown, whatever text the backend returned.
C11_ClosedVocabulary ==
    /\ \A p \in Flows :
          origin[p] = "gemini" => category[p] \in ControlledVocabulary
    /\ \A d \in DOMAIN category_cache :
          category_cache[d] \in ControlledVocabulary
    /\ policyFile.valid => DOMAIN policyFile.data \subseteq ControlledVocabulary

\* the backend's text, trimmed and cut after its last colon, is longer than
\* 50 characters
Malformed(out) ==
    /\ ~out.raises
    /\ out.text # <<>>
    /\ Len(Strip(out.text[Len(out.text)])) > MaxCategoryLen

\* C12: a request whose backend output is malformed carries the category
\* Unknown out of the classifier and goes on as a classified request; its
\* policy step adds Unknown: allowed when categories.json has no entry for
\* Unknown, and the file it writes holds that entry; its cache step maps the
\* domain to Unknown; its blocking check is made with Unknown.
C12_MalformedOutput ==
    [][\A p \in Flows :
          /\ (pc[p] = "classifying" /\ pc'[p] # "classifying"
                 /\ Malformed(generated'[p]))
                => /\ category'[p] = Unknown
                   /\ origin'[p] = "gemini"
                   /\ pc'[p] = "read_policy"
          /\ (pc[p] = "read_policy" /\ pc'[p] # "read_policy"
                 /\ Malformed(generated[p])
                 /\ policyFile.valid /\ Unknown \notin DOMAIN policyFile.data)
                => /\ pc'[p] = "open_policy"
                   /\ category_policies'[p] = Put(policyFile.data, Unknown, "allowed")
          /\ (pc[p] = "dump_policy" /\ pc'[p] = "cache_put"
                 /\ Malformed(generated[p]))
                => PersistedAllow(policyFile', Unknown)
          /\ (pc[p] = "cache_put" /\ pc'[p] = "save_cache"
                 /\ Malformed(generated[p]))
                => /\ domain[p] \in DOMAIN category_cache'
                   /\ category_cache'[domain[p]] = Unknown
          /\ (pc[p] = "save_cache" /\ pc'[p] = "returned"
                 /\ Malformed(generated[p]))
                => response'[p] = IF Unknown \in blocked_categories
                                  THEN BlockResponse ELSE None]_vars

\* a flow whose backend output was malformed has returned; its domain is
\* cached as Unknown and categories.json maps Unknown to allowed
C12_Witness ==
    \E p \in Flows :
        /\ pc[p] = "returned"
        /\ Malformed(generated[p])
        /\ new_category[p]
        /\ domain[p] \in DOMAIN category_cache
        /\ category_cache[domain[p]] = Unknown
        /\ cacheFile.valid /\ domain[p] \in DOMAIN cacheFile.data
        /\ cacheFile.data[domain[p]] = Unknown
        /\ PersistedAllow(policyFile, Unknown)

\* C13: on an engine started on a domain_cache.json that does not parse, the
\* in-memory cache starts empty; from then on a request for a domain that is
\* not cached goes to the classifier, a request that returns after a
\* successful classification has its domain in the cache, and every cached
\* domain was put there by such a request of this run.
C13_CorruptCacheRecoverable ==
    /\ (~startup_cache.valid => category_cache = EmptyMap)
    /\ [](~startup_cache.valid =>
             /\ \A p \in Flows :
                   (pc[p] = "returned" /\ origin[p] = "gemini")
                      => domain[p] \in DOMAIN category_cache
             /\ \A d \in DOMAIN category_cache :
                   \E p \in Flows : /\ origin[p] = "gemini"
                                    /\ domain[p] = d
                                    /\ pc[p] \in {"save_cache", "returned"})
    /\ [][~startup_cache.valid =>
             \A p \in Flows :
                (pc[p] = "idle" /\ pc'[p] # "idle" /\ domain'[p] # <<>>
                     /\ domain'[p] \notin DOMAIN category_cache)
                   => /\ pc'[p] = "classifying"
                      /\ UNCHANGED stores]_vars

\* on an engine started on an unparsable domain_cache.json, a flow classified
\* its domain and returned, a later flow for the domain was served from the
\* cache, and domain_cache.json parses again and holds the domain
C13_Witness ==
    /\ ~startup_cache.valid
    /\ \E p, q \in Flows :
          /\ p < q
          /\ pc[p] = "returned" /\ origin[p] = "gemini"
          /\ pc[q] = "returned" /\ origin[q] = "cached"
          /\ domain[q] = domain[p]
          /\ category_cache[domain[p]] = category[p]
          /\ cacheFile.valid /\ domain[p] \in DOMAIN cacheFile.data

\* C14: whatever the files hold and whatever the classifier does, no flow
\* leaves request() by an exception.
C14_NoEscape ==
    \A p \in Flows : pc[p] # "raised"

\* the step is a failed file write of flow p
WriteFails(p) ==
    /\ writeFailures' = writeFailures + 1
    /\ pc'[p] # pc[p]

\* C17: when a write of categories.json or domain_cache.json fails in a
\* request that has classified its domain, the handler does not raise, the
\* in-memory cache holds domain -> label once the request is past the write,
\* and the request returns from the blocking check made with that label.
C17_WriteFailureKeepsDecision ==
    [][\A p \in Flows :
          WriteFails(p)
             => /\ pc'[p] \in {"cache_put", "returned"}
                /\ pc'[p] = "returned"
                      => /\ domain[p] \in DOMAIN category_cache'
                         /\ category_cache'[domain[p]] = category[p]
                         /\ response'[p] = IF category[p] \in blocked_categories
                                           THEN BlockResponse ELSE None]_vars

\* C15: a request whose host is empty, or whose host yields no domain,
\* returns in that step with flow.response untouched, without a classifier
\* call and with the cache and both files as they were.
C15_NoDomainFailOpen ==
    [][\A p \in Flows :
          (pc[p] = "idle" /\ pc'[p] # "idle" /\ domain'[p] = <<>>)
             => /\ pc'[p] = "returned"
                /\ response'[p] = None
                /\ generated'[p] = NoAnswer
                /\ UNCHANGED stores]_vars

\* a flow with no domain has ended Allowed, the classifier not called
C15_Witness ==
    \E p \in Flows :
        /\ Allowed(p)
        /\ domain[p] = <<>>
        /\ generated[p] = NoAnswer

\* C18: every step of a request that changes the in-memory cache,
\* domain_cache.json or categories.json is a step of a request that is past
\* a successful classifier call; so a cache hit, a request without a domain
\* and a request whose classification failed change none of them.
C18_SideEffectsConfined ==
    [][\A p \in Flows :
          (pc'[p] # pc[p] /\ stores' # stores)
             => /\ pc[p] \in Classified
                /\ origin[p] = "gemini"
                /\ ~ClassifierFailed(generated[p])]_vars

\* a classified request has written the stores, and a cache hit, a request
\* without a domain or a failed classification has returned after it
C18_Witness ==
    \E p, q \in Flows :
        /\ p < q
        /\ pc[p] = "returned" /\ origin[p] = "gemini"
        /\ cacheFile # startup_cache /\ policyFile # startup_policy
        /\ pc[q] = "returned" /\ origin[q] # "gemini"

\* C19: a request is Blocked only with a label that categories.json mapped
\* to blocked when it was loaded at startup; no step changes the blocked
\* set; a request that ends without a domain or on a failed classification
\* is not Blocked.
C19_BlockOnlyOnStartupPolicy ==
    /\ [](\A p \in Flows :
             Blocked(p) => /\ StartupBlocks(category[p])
                           /\ category[p] \in blocked_categories
                           /\ origin[p] # "none")
    /\ [][blocked_categories' = blocked_categories]_vars

\* one flow has been Blocked on a label the startup policy blocks, and
\* another has ended Allowed with a label that categories.json, as it is
\* now, maps to blocked, the startup policy not blocking it
C19_Witness ==
    \E p, q \in Flows :
        /\ Blocked(p) /\ StartupBlocks(category[p])
        /\ Allowed(q) /\ category[q] # ""
        /\ ~StartupBlocks(category[q])
        /\ category[q] \in load_blocked_categories(policyFile)

\* normalizing a domain the normalizer produced yields that domain
NormIdempotent ==
    norm.stage = "again" => norm.again = norm.domain

\* two hosts that differ in their subdomain labels only have the same domain
NormIgnoresSubdomains ==
    (norm.stage = "normalized" /\ norm.domain # <<>>
         /\ SameButSubdomains(norm.other, norm.host))
       => norm.other_domain = norm.domain

\* two hosts that differ in letter case only have the same domain
NormIgnoresCase ==
    (norm.stage = "normalized" /\ norm.domain # <<>>
         /\ SameButCase(norm.other, norm.host))
       => norm.other_domain = norm.domain

\* C16: for every host that has a domain, normalizing the domain again
\* yields the same domain, and the domain is the same for every host that
\* differs from it in letter case or in subdomain labels.
C16_NormalizationInvariant ==
    /\ NormIdempotent
    /\ NormIgnoresSubdomains
    /\ NormIgnoresCase

\* C20: every request that has entered the handler eventually returns from
\* it with a verdict, Allowed or Blocked.
C20_EventualVerdict ==
    \A p \in Flows : (pc[p] # "idle") ~> (Allowed(p) \/ Blocked(p))

====
